---- MODULE Spec2Model ----
(***************************************************************************)
(* Video frame extraction: VideoProcessor (src/video_processor.py) and the *)
(* caller-side cancel flag of the GUI (src/main_gui.py).                   *)
(*                                                                         *)
(* Abstractions:                                                           *)
(*  - a time text is the sequence of its parts after                       *)
(*    replace('-', ':').split(':'); a part records whether int() and       *)
(*    float() accept it and its value in thousandths;                      *)
(*  - the frame rate is a whole number of frames per second and float      *)
(*    arithmetic is exact;                                                 *)
(*  - a frame's pixels are identified with the index of the frame in the   *)
(*    video, so a file "holds frame i";                                    *)
(*  - one output format and one output directory.                          *)
(*  - a call of a conversion function (timestamp_to_frame,                  *)
(*    frame_to_timestamp, validate_time_format) is recorded in last_call:  *)
(*    its argument, what it returned, whether it raised.                   *)
(***************************************************************************)
EXTENDS Integers, Sequences, FiniteSets, TLC

\* ------------------------------------------------------------- bounds
\* frames of the longest video
MaxFrames == 3
\* largest frame_interval a caller passes
MaxInterval == 2
\* extract_frames calls in one behaviour
MaxCalls == 2

FpsSet == {1, 2}

VARIABLES
    video_info,              \* [total_frames, fps], fixed when the video is loaded
    cap_pos,                 \* decode cursor of self.cap (CAP_PROP_POS_FRAMES)
    is_extracting,           \* the caller's running / cancel flag
    calls,                   \* number of extraction requests issued so far
    pc,                      \* where the extraction thread is
    req,                     \* arguments of the current extract_frames call
    chosen_backend,
    start_frame,
    end_frame,
    total_frames_to_extract,
    extracted_count,
    failed_count,
    progress_counter,
    current_frame_num,
    tasks,                   \* save_and_report invocations, in submission order (futures)
    collected,               \* futures whose result the collect loop has processed
    events,                  \* progress_callback invocations, in order
    read_failed,             \* frame numbers whose cap.read() returned ret = False
    output_dir,              \* files of the output directory
    tmp_dir,                 \* files of <output_dir>/_ffmpeg_tmp
    files,                   \* sorted listing still to rename
    failed_runs,             \* calls whose external process exited non-zero
    cap_lock,                \* holder of self._cap_lock, or "free"
    fetch,                   \* per fetching thread: where its get_frame_at_* call is
    last_call,               \* the last call of a conversion function and what it gave
    cap_open,                \* self.cap is set and opened (FALSE once close() has run)
    dir_made,                \* os.makedirs(output_dir) has run
    ui                       \* the GUI: button states, preview worker, completion callback

engine_vars == <<pc, req, chosen_backend, start_frame, end_frame,
                 total_frames_to_extract, extracted_count, failed_count,
                 progress_counter, current_frame_num, tasks, collected, events,
                 read_failed, files>>
disk_vars == <<output_dir, tmp_dir, failed_runs>>
fetch_vars == <<cap_lock, fetch>>
vars == <<video_info, cap_pos, is_extracting, calls, engine_vars, disk_vars, fetch_vars,
          last_call, cap_open, dir_made, ui>>

Min(a, b) == IF a < b THEN a ELSE b
Max(a, b) == IF a > b THEN a ELSE b

\* ------------------------------------------------------------- time texts
IntPart(n) == [int |-> TRUE, num |-> TRUE, inf |-> FALSE, milli |-> n * 1000]
DecPart(ms) == [int |-> FALSE, num |-> TRUE, inf |-> FALSE, milli |-> ms]
\* a part neither int() nor float() accepts ("bad", ""); float() accepts "nan",
\* but every use of the value then fails or compares False, as for a bad part
BadPart == [int |-> FALSE, num |-> FALSE, inf |-> FALSE, milli |-> 0]
\* "inf", "1e999": float() gives infinity
InfPart == [int |-> FALSE, num |-> TRUE, inf |-> TRUE, milli |-> 0]

\* end_time = None (or ""): every real text splits into at least one part
NoneText == << >>
Hms(h, m, s) == <<IntPart(h), IntPart(m), IntPart(s)>>
HmsMilli(h, m, ms) == <<IntPart(h), IntPart(m), DecPart(ms)>>

StartTexts == {Hms(0, 0, 0), HmsMilli(0, 0, 500)}
EndTexts == {NoneText, Hms(0, 0, 1)}
\* positions of the preview slider, in thousandths of a second
PreviewMillis == {0, 1000, 1500}

\* int(total_seconds * fps) of an infinite total_seconds is an OverflowError,
\* which "except (ValueError, IndexError)" lets through; infinity times a zero
\* frame rate is nan, whose int() is a ValueError
timestamp_to_frame_raises(timestamp_str) ==
    /\ Len(timestamp_str) >= 3
    /\ timestamp_str[1].int /\ timestamp_str[2].int /\ timestamp_str[3].inf
    /\ video_info.fps # 0

\* timestamp_to_frame: int(), int(), float() of the first three parts; a
\* ValueError gives 0; fewer than three parts gives 0
timestamp_to_frame(timestamp_str) ==
    IF Len(timestamp_str) >= 3
       /\ timestamp_str[1].int /\ timestamp_str[2].int /\ timestamp_str[3].num
       /\ ~timestamp_str[3].inf
    THEN LET hours == timestamp_str[1].milli \div 1000
             minutes == timestamp_str[2].milli \div 1000
             total_milli == (hours * 3600 + minutes * 60) * 1000 + timestamp_str[3].milli
             frame_number == (total_milli * video_info.fps) \div 1000
         IN  Min(frame_number, video_info.total_frames - 1)
    ELSE 0

\* frame_to_timestamp: <<HH, MM, SS, mmm>>, each field truncated
frame_to_timestamp(frame_number) ==
    IF video_info.fps <= 0 THEN <<0, 0, 0, 0>>
    ELSE LET fps == video_info.fps
         IN  << frame_number \div (3600 * fps),
                (frame_number % (3600 * fps)) \div (60 * fps),
                (frame_number % (60 * fps)) \div fps,
                ((frame_number % fps) * 1000) \div fps >>

\* the label with its hyphens replaced by colons, as timestamp_to_frame splits
\* it: four parts of digits
ColonForm(label) == [i \in 1..Len(label) |-> IntPart(label[i])]

\* round(n / d) of Python 3 for n >= 0, d > 0: halves go to the even neighbour
RoundHalfEven(n, d) ==
    LET q == n \div d
        r == n % d
    IN  IF 2 * r < d THEN q
        ELSE IF 2 * r > d THEN q + 1
        ELSE IF q % 2 = 0 THEN q ELSE q + 1

\* seconds_to_hms_precise without its "if ms == 1000" block
seconds_to_hms_precise_no_carry(num, den) ==
    LET whole == Max(0, num) \div den
        hours == whole \div 3600
        minutes == (whole % 3600) \div 60
        secs_int == whole % 60
        ms == RoundHalfEven((Max(0, num) % den) * 1000, den)
    IN  <<hours, minutes, secs_int, ms>>

\* seconds_to_hms_precise(num / den), den > 0: <<HH, MM, SS, mmm>>, the
\* milliseconds rounded and a rounded-up 1000 carried into the fields above
seconds_to_hms_precise(num, den) ==
    LET whole == Max(0, num) \div den
        hours == whole \div 3600
        minutes == (whole % 3600) \div 60
        secs_int == whole % 60
        ms == RoundHalfEven((Max(0, num) % den) * 1000, den)
    IN  IF ms # 1000 THEN <<hours, minutes, secs_int, ms>>
        ELSE IF secs_int + 1 # 60 THEN <<hours, minutes, secs_int + 1, 0>>
        ELSE IF minutes + 1 # 60 THEN <<hours, minutes + 1, 0, 0>>
        ELSE <<hours + 1, 0, 0, 0>>

\* validate_time_format with len(parts) >= 3 in place of len(parts) != 3
validate_time_format_lenient(time_str) ==
    IF Len(time_str) < 3 THEN FALSE
    ELSE IF ~(time_str[1].int /\ time_str[2].int /\ time_str[3].num) THEN FALSE
    ELSE /\ time_str[1].milli \div 1000 \in 0..23
         /\ time_str[2].milli \div 1000 \in 0..59
         /\ ~time_str[3].inf
         /\ time_str[3].milli < 60000

\* validate_time_format: exactly three parts, int(), int(), float() accept them
\* (a ValueError gives False), and the three range tests
validate_time_format(time_str) ==
    IF Len(time_str) # 3 THEN FALSE
    ELSE IF ~(time_str[1].int /\ time_str[2].int /\ time_str[3].num) THEN FALSE
    ELSE /\ time_str[1].milli \div 1000 \in 0..23
         /\ time_str[2].milli \div 1000 \in 0..59
         /\ ~time_str[3].inf
         /\ time_str[3].milli < 60000

\* range(lo, hi, step) of Python, step # 0
RECURSIVE PyRange(_, _, _)
PyRange(lo, hi, step) ==
    IF (step > 0 /\ lo < hi) \/ (step < 0 /\ lo > hi)
    THEN <<lo>> \o PyRange(lo + step, hi, step)
    ELSE << >>

\* the planned count without the end frame: len(range(start_frame, end_frame, k))
PlannedCountExclusive(s, e, k) == Len(PyRange(s, e, k))

\* len(range(start_frame, end_frame + 1, frame_interval))
PlannedCount(s, e, k) == Len(PyRange(s, e + 1, k))

\* the selection test on the absolute index: current_frame_num % max(1, k) == 0
SelectedAbsolute(i, s, k) == i % Max(1, k) = 0

\* (current_frame_num - start_frame) % max(1, frame_interval) == 0
Selected(i, s, k) == (i - s) % Max(1, k) = 0

\* writing path replaces what the directory held under that name
WriteFile(dir, f) == {g \in dir : g.name # f.name} \cup {f}

\* threads that fetch single frames: the main loop (preview_frame_at_time) and
\* the preview worker (_preview_worker_loop)
Fetchers == {"ui", "preview"}
IdleFetch == [pc |-> "idle", target |-> 0, grabs |-> 0]

\* ------------------------------------------------------------- Init
NoCall == [fn |-> "none", text |-> << >>, frame |-> 0, num |-> 0, den |-> 1,
           out_frame |-> 0, out_label |-> << >>, out_ok |-> FALSE, raised |-> FALSE]

\* the state of a handle whose video has just been loaded, the video aside
\* the window with a video loaded and nothing running: update_ui_state() of
\* the idle state, the preview worker started by load_video
IdleUi == [buttons |-> "idle", preview |-> TRUE, callback_done |-> TRUE]

InitRest ==
    /\ last_call = NoCall
    /\ cap_open = TRUE
    /\ dir_made = FALSE
    /\ ui = IdleUi
    /\ cap_pos = 0
    /\ is_extracting = FALSE
    /\ calls = 0
    /\ pc = "idle"
    /\ req = [start_time |-> Hms(0, 0, 0), end_time |-> NoneText, frame_interval |-> 1,
              use_threading |-> TRUE, backend |-> "auto", has_callback |-> TRUE]
    /\ chosen_backend = "auto"
    /\ start_frame = 0
    /\ end_frame = 0
    /\ total_frames_to_extract = 0
    /\ extracted_count = 0
    /\ failed_count = 0
    /\ progress_counter = 0
    /\ current_frame_num = 0
    /\ tasks = << >>
    /\ collected = 0
    /\ events = << >>
    /\ read_failed = {}
    /\ output_dir = {}
    /\ tmp_dir = {}
    /\ files = << >>
    /\ failed_runs = {}
    /\ cap_lock = "free"
    /\ fetch = [t \in Fetchers |-> IdleFetch]

Init ==
    /\ video_info \in [total_frames : {MaxFrames}, fps : FpsSet]
    /\ InitRest

\* what the decoder may report for a file it opens: CAP_PROP_FRAME_COUNT and
\* CAP_PROP_FPS are 0 for a container that does not record them
AnyFps == {0, 1, 2, 3}
AnyVideo == [total_frames : 0..MaxFrames, fps : AnyFps]

InitAny ==
    /\ video_info \in AnyVideo
    /\ InitRest

\* ------------------------------------------------------------- the caller
\* start_extraction (GUI) or any API client: raise the running flag and hand the
\* request to the extraction thread
ResetCall ==
    /\ chosen_backend' = "auto"
    /\ start_frame' = 0
    /\ end_frame' = 0
    /\ total_frames_to_extract' = 0
    /\ extracted_count' = 0
    /\ failed_count' = 0
    /\ progress_counter' = 0
    /\ current_frame_num' = 0
    /\ tasks' = << >>
    /\ collected' = 0
    /\ events' = << >>
    /\ read_failed' = {}
    /\ files' = << >>

start_extraction(st, et, k, thr, be, cb) ==
    /\ ~is_extracting
    /\ pc \in {"idle", "done", "failed"}
    /\ is_extracting' = TRUE
    /\ calls' = calls + 1
    /\ req' = [start_time |-> st, end_time |-> et, frame_interval |-> k,
               use_threading |-> thr, backend |-> be, has_callback |-> cb]
    /\ pc' = "called"
    /\ ResetCall
    \* update_ui_state() with the flag set, stop_preview_worker()
    /\ ui' = [buttons |-> "running", preview |-> FALSE, callback_done |-> FALSE]
    /\ UNCHANGED <<cap_open, dir_made, last_call, video_info, cap_pos, disk_vars, fetch_vars>>

\* stop_extraction: clears the flag and nothing else
stop_extraction ==
    /\ is_extracting
    /\ is_extracting' = FALSE
    /\ UNCHANGED <<cap_open, dir_made, ui, last_call, video_info, cap_pos, calls, engine_vars, disk_vars, fetch_vars>>

\* the end of extraction_worker and the callback it posts to the main loop:
\* extraction_completed, only if the flag is still set when extract_frames has
\* returned; extraction_failed, whenever extract_frames has raised. Either one
\* clears the flag, calls update_ui_state() and start_preview_worker()
extraction_finished ==
    /\ pc \in {"done", "failed"}
    /\ ~ui.callback_done
    /\ pc = "done" => is_extracting
    /\ is_extracting' = FALSE
    /\ ui' = IdleUi
    /\ UNCHANGED <<cap_open, dir_made, last_call, video_info, cap_pos, calls, engine_vars, disk_vars, fetch_vars>>

\* ------------------------------------------------------------- close
\* the guards of the handle's methods without the test of self.cap
HandleOpenUnchecked == TRUE

\* self.cap and self.cap.isOpened()
HandleOpen == cap_open

\* close(): release the capture if there is one and forget it; __del__ calls it
\* again. In the GUI load_video and clear_video_info call it on the current
\* handle without stopping any thread first
close ==
    /\ cap_open' = FALSE
    /\ UNCHANGED <<dir_made, ui, last_call, video_info, cap_pos, is_extracting, calls,
                   engine_vars, disk_vars, fetch_vars>>

\* on_closing: a running extraction is only told to stop (the flag), the
\* handle is closed, then stop_preview_worker() sets the stop event and joins
\* for at most half a second
on_closing ==
    /\ is_extracting' = FALSE
    /\ cap_open' = FALSE
    /\ ui' = [ui EXCEPT !.preview = FALSE]
    /\ UNCHANGED <<dir_made, last_call, video_info, cap_pos, calls, engine_vars,
                   disk_vars, fetch_vars>>

\* ------------------------------------------------------------- extract_frames
\* the range test letting a range of one frame through: start_frame > end_frame
RangeInvalidStrict(sf, ef) == sf > ef

\* if start_frame >= end_frame: raise ValueError
RangeInvalid(sf, ef) == sf >= ef

\* validation, planned count, backend choice and the seek to start_frame
extract_frames ==
    /\ pc = "called"
    /\ IF ~HandleOpen
       THEN \* ValueError before os.makedirs(output_dir)
            /\ pc' = "failed"
            /\ UNCHANGED <<dir_made, start_frame, end_frame, chosen_backend,
                           total_frames_to_extract, current_frame_num, cap_pos>>
       ELSE
       LET sf == Max(0, timestamp_to_frame(req.start_time))
           ef0 == IF req.end_time # NoneText THEN timestamp_to_frame(req.end_time)
                  ELSE video_info.total_frames - 1
           ef == Min(ef0, video_info.total_frames - 1)
       IN  /\ dir_made' = TRUE
           /\ start_frame' = sf
           /\ end_frame' = ef
           /\ IF \/ timestamp_to_frame_raises(req.start_time)
                 \/ (req.end_time # NoneText /\ timestamp_to_frame_raises(req.end_time))
                 \/ RangeInvalid(sf, ef)
                 \/ req.frame_interval = 0
              THEN \* OverflowError of a conversion, ValueError of the range
                   \* test, or ValueError of range() with step 0
                   /\ pc' = "failed"
                   /\ UNCHANGED <<chosen_backend, total_frames_to_extract,
                                  current_frame_num, cap_pos>>
              ELSE /\ total_frames_to_extract' = PlannedCount(sf, ef, req.frame_interval)
                   /\ \E avail \in BOOLEAN :
                        chosen_backend' =
                            IF req.backend = "auto"
                            THEN (IF avail THEN "ffmpeg" ELSE "opencv")
                            ELSE req.backend
                   /\ IF chosen_backend' = "ffmpeg"
                      THEN /\ pc' = "ffmpeg"
                           /\ UNCHANGED <<current_frame_num, cap_pos>>
                      ELSE /\ cap_pos' = sf
                           /\ current_frame_num' = sf
                           /\ pc' = "scan"
    /\ UNCHANGED <<cap_open, ui, last_call, video_info, is_extracting, calls, req,
                   extracted_count, failed_count, progress_counter, tasks, collected,
                   events, read_failed, files, disk_vars, fetch_vars>>

\* the file named after the number of files the directory holds so far
FrameFileByCount(idx, frame) ==
    [name |-> frame_to_timestamp(Cardinality(output_dir)), frame |-> frame, run |-> calls]

FrameFile(idx, frame) == [name |-> frame_to_timestamp(idx), frame |-> frame, run |-> calls]
ProgressEvent(n, idx) ==
    [completed |-> n, total |-> total_frames_to_extract, path |-> frame_to_timestamp(idx)]

\* what the outcome of save_and_report adds to failed_count: "else:
\* failed_count += 1" for a task that returned ok = False
FailedIncrementDropped(ok) == 0

FailedIncrement(ok) == IF ok THEN 0 ELSE 1

\* one iteration of the decode loop
ScanStep ==
    /\ pc = "scan"
    /\ current_frame_num <= end_frame
    /\ \E ret \in BOOLEAN :
         /\ ret => (cap_open /\ cap_pos < video_info.total_frames)
         /\ IF ~ret
            THEN \* read failed: count it and go on; the decoder may or may not
                 \* have consumed the frame (a released capture gives nothing)
                 /\ failed_count' = failed_count + 1
                 /\ read_failed' = read_failed \cup {current_frame_num}
                 /\ current_frame_num' = current_frame_num + 1
                 /\ \E adv \in {0, 1} :
                      /\ adv = 1 => cap_open
                      /\ cap_pos + adv <= video_info.total_frames
                      /\ cap_pos' = cap_pos + adv
                 /\ UNCHANGED <<pc, extracted_count, progress_counter, tasks, events,
                                output_dir>>
            ELSE /\ cap_pos' = cap_pos + 1
                 /\ UNCHANGED read_failed
                 /\ IF ~Selected(current_frame_num, start_frame, req.frame_interval)
                    THEN /\ current_frame_num' = current_frame_num + 1
                         /\ UNCHANGED <<pc, extracted_count, failed_count,
                                        progress_counter, tasks, events, output_dir>>
                    ELSE IF req.use_threading
                    THEN \* executor.submit(save_and_report, filepath, frame.copy())
                         /\ tasks' = Append(tasks, [idx |-> current_frame_num,
                                                    frame |-> cap_pos, st |-> "pending",
                                                    counted |-> "none"])
                         /\ current_frame_num' = current_frame_num + 1
                         /\ UNCHANGED <<pc, extracted_count, failed_count,
                                        progress_counter, events, output_dir>>
                    ELSE \* save_and_report inline
                         \E ok \in BOOLEAN, raises \in BOOLEAN :
                           /\ raises => (ok /\ req.has_callback)
                           /\ tasks' = Append(tasks,
                                  [idx |-> current_frame_num, frame |-> cap_pos,
                                   st |-> IF ok THEN "ok" ELSE "fail",
                                   counted |-> IF ok THEN "extracted" ELSE "failed"])
                           /\ IF ok
                              THEN /\ output_dir' = WriteFile(output_dir,
                                          FrameFile(current_frame_num, cap_pos))
                                   /\ extracted_count' = extracted_count + 1
                                   /\ progress_counter' = progress_counter + 1
                                   /\ events' = IF req.has_callback
                                        THEN Append(events,
                                               ProgressEvent(progress_counter + 1,
                                                             current_frame_num))
                                        ELSE events
                                   /\ UNCHANGED failed_count
                              ELSE /\ failed_count' = failed_count + FailedIncrement(ok)
                                   /\ UNCHANGED <<output_dir, extracted_count,
                                                  progress_counter, events>>
                           /\ IF raises
                              THEN \* the callback's exception leaves the loop:
                                   \* RuntimeError, no result
                                   /\ pc' = "failed"
                                   /\ UNCHANGED current_frame_num
                              ELSE /\ pc' = pc
                                   /\ current_frame_num' = current_frame_num + 1
    /\ UNCHANGED <<cap_open, dir_made, ui, last_call, video_info, is_extracting, calls, req, chosen_backend, start_frame,
                   end_frame, total_frames_to_extract, collected, files, tmp_dir,
                   failed_runs,
                   fetch_vars>>

\* close() has set self.cap to None under the loop: self.cap.read() is an
\* AttributeError, which leaves the loop for the except and finally clauses
ScanClosed ==
    /\ pc = "scan"
    /\ current_frame_num <= end_frame
    /\ ~cap_open
    /\ pc' = "abort"
    /\ UNCHANGED <<cap_open, dir_made, ui, last_call, video_info, cap_pos, is_extracting,
                   calls, req, chosen_backend, start_frame, end_frame,
                   total_frames_to_extract, extracted_count, failed_count,
                   progress_counter, current_frame_num, tasks, collected, events,
                   read_failed, files, disk_vars, fetch_vars>>

\* does a wait for task i return: future.result() and executor.shutdown(wait=True)
\* block until the pool thread has run the task to its end
TaskFinishedNoWait(i) == TRUE

TaskFinished(i) == tasks[i].st # "pending"

\* finally: executor.shutdown(wait=True), then the RuntimeError reaches the caller
AbortEnd ==
    /\ pc = "abort"
    /\ \A i \in 1..Len(tasks) : TaskFinished(i)
    /\ pc' = "failed"
    /\ UNCHANGED <<cap_open, dir_made, ui, last_call, video_info, cap_pos, is_extracting,
                   calls, req, chosen_backend, start_frame, end_frame,
                   total_frames_to_extract, extracted_count, failed_count,
                   progress_counter, current_frame_num, tasks, collected, events,
                   read_failed, files, disk_vars, fetch_vars>>

\* the while condition fails: on to the futures loop
ScanEnd ==
    /\ pc = "scan"
    /\ current_frame_num > end_frame
    /\ pc' = "collect"
    /\ UNCHANGED <<cap_open, dir_made, ui, last_call, video_info, cap_pos, is_extracting, calls, req, chosen_backend,
                   start_frame, end_frame, total_frames_to_extract, extracted_count,
                   failed_count, progress_counter, current_frame_num, tasks, collected,
                   events, read_failed, files, disk_vars,
                   fetch_vars>>

\* a pool thread runs save_and_report for a submitted task
SaveAndReport(i) ==
    /\ i \in 1..Len(tasks)
    /\ tasks[i].st = "pending"
    /\ \E ok \in BOOLEAN :
         /\ tasks' = [tasks EXCEPT ![i].st = IF ok THEN "ok" ELSE "fail"]
         /\ output_dir' = IF ok THEN WriteFile(output_dir, FrameFile(tasks[i].idx, tasks[i].frame))
                          ELSE output_dir
    /\ UNCHANGED <<cap_open, dir_made, ui, last_call, video_info, cap_pos, is_extracting, calls, pc, req, chosen_backend,
                   start_frame, end_frame, total_frames_to_extract, extracted_count,
                   failed_count, progress_counter, current_frame_num, collected, events,
                   read_failed, files, tmp_dir, failed_runs,
                   fetch_vars>>

\* one iteration of "for future in futures": future.result() blocks until the
\* task has finished; without a pool nothing was submitted and futures is empty
CollectStep ==
    /\ pc = "collect"
    /\ req.use_threading
    /\ collected < Len(tasks)
    /\ LET i == collected + 1
           ok == tasks[i].st = "ok"
       IN  /\ TaskFinished(i)
           /\ \E raises \in BOOLEAN :
                /\ raises => req.has_callback
                /\ extracted_count' = IF ok THEN extracted_count + 1 ELSE extracted_count
                /\ failed_count' = failed_count + FailedIncrement(ok)
                                                + (IF raises THEN 1 ELSE 0)
                /\ tasks' = [tasks EXCEPT ![i].counted =
                                IF ok THEN (IF raises THEN "both" ELSE "extracted")
                                ELSE (IF raises THEN "failed_twice" ELSE "failed")]
                /\ progress_counter' = progress_counter + 1
                /\ events' = IF req.has_callback
                             THEN Append(events,
                                    ProgressEvent(progress_counter + 1, tasks[i].idx))
                             ELSE events
           /\ collected' = i
    /\ UNCHANGED <<cap_open, dir_made, ui, last_call, video_info, cap_pos, is_extracting, calls, pc, req, chosen_backend,
                   start_frame, end_frame, total_frames_to_extract, current_frame_num,
                   read_failed, files, disk_vars,
                   fetch_vars>>

\* every future processed: executor.shutdown(wait=True) and return the result
CollectEnd ==
    /\ pc = "collect"
    /\ req.use_threading => collected = Len(tasks)
    /\ pc' = "done"
    /\ UNCHANGED <<cap_open, dir_made, ui, last_call, video_info, cap_pos, is_extracting, calls, req, chosen_backend,
                   start_frame, end_frame, total_frames_to_extract, extracted_count,
                   failed_count, progress_counter, current_frame_num, tasks, collected,
                   events, read_failed, files, disk_vars,
                   fetch_vars>>

\* ------------------------------------------------------------- _extract_frames_ffmpeg
\* What the external process writes for
\*   -ss start -to end -vf select=not(mod(n\,k)) -vsync vfr -start_number s %010d.ext:
\* the select filter keeps every k-th frame of the sub-range and the image2
\* muxer numbers the frames it is given consecutively from start_number; n is
\* the number of frames the process got to before it ended.
FfmpegOutput(s, e, k, n) ==
    { [ord |-> s + j, frame |-> s + j * Max(1, k), run |-> calls] :
        j \in {x \in 0..(n - 1) : s + x * Max(1, k) <= e} }

\* ffmpeg -y overwrites the scratch files it writes again
WriteTmp(dir, out) == {g \in dir : \A f \in out : f.ord # g.ord} \cup out

\* sorted(os.listdir(tmp_dir)): zero-padded names sort by ordinal
RECURSIVE SortedOrds(_)
SortedOrds(S) ==
    IF S = {} THEN << >>
    ELSE LET m == CHOOSE x \in S : \A y \in S : x <= y
         IN  <<m>> \o SortedOrds(S \ {m})

\* the availability test made after the process has been started in the
\* scratch directory: the first frame is already written
BackendUnavailableLate ==
    /\ pc' = "failed"
    /\ tmp_dir' = WriteTmp(tmp_dir, FfmpegOutput(start_frame, end_frame,
                                                  req.frame_interval, 1))
    /\ UNCHANGED <<files, failed_runs>>

\* if not self._ffmpeg_available(): raise RuntimeError, before the scratch
\* directory is made
BackendUnavailable ==
    /\ pc' = "failed"
    /\ UNCHANGED <<files, tmp_dir, failed_runs>>

\* availability check, scratch directory, one run of the external process
FfmpegRun ==
    /\ pc = "ffmpeg"
    /\ \E avail \in BOOLEAN :
         IF ~avail
         THEN BackendUnavailable
         ELSE \E n \in 0..(end_frame - start_frame + 1), returncode \in {0, 1} :
                \* exit status 0: the process went through the whole sub-range
                /\ returncode = 0 => n = end_frame - start_frame + 1
                /\ tmp_dir' = WriteTmp(tmp_dir,
                                  FfmpegOutput(start_frame, end_frame,
                                               req.frame_interval, n))
                /\ IF returncode # 0
                   THEN /\ pc' = "failed"
                        /\ failed_runs' = failed_runs \cup {calls}
                        /\ UNCHANGED files
                   ELSE /\ pc' = "rename"
                        /\ files' = SortedOrds({f.ord : f \in tmp_dir'})
                        /\ UNCHANGED failed_runs
    /\ UNCHANGED <<cap_open, dir_made, ui, last_call, video_info, cap_pos, is_extracting, calls, req, chosen_backend,
                   start_frame, end_frame, total_frames_to_extract, extracted_count,
                   failed_count, progress_counter, current_frame_num, tasks, collected,
                   events, read_failed, output_dir,
                   fetch_vars>>

\* one iteration of "for fname in files"
RenameStep ==
    /\ pc = "rename"
    /\ files # << >>
    /\ LET index == Head(files)
           src == CHOOSE f \in tmp_dir : f.ord = index
       IN  \E moved \in BOOLEAN, raises \in BOOLEAN :
             /\ raises => (moved /\ req.has_callback)
             /\ IF moved
                THEN \* os.replace(src, dst)
                     /\ tmp_dir' = tmp_dir \ {src}
                     /\ output_dir' = WriteFile(output_dir,
                            [name |-> frame_to_timestamp(index), frame |-> src.frame,
                             run |-> src.run])
                     /\ extracted_count' = extracted_count + 1
                     /\ progress_counter' = progress_counter + 1
                     /\ events' = IF req.has_callback
                                  THEN Append(events,
                                         ProgressEvent(progress_counter + 1, index))
                                  ELSE events
                     /\ failed_count' = failed_count + (IF raises THEN 1 ELSE 0)
                ELSE /\ failed_count' = failed_count + 1
                     /\ UNCHANGED <<tmp_dir, output_dir, extracted_count,
                                    progress_counter, events>>
             /\ files' = Tail(files)
    /\ UNCHANGED <<cap_open, dir_made, ui, last_call, video_info, cap_pos, is_extracting, calls, pc, req, chosen_backend,
                   start_frame, end_frame, total_frames_to_extract, current_frame_num,
                   tasks, collected, read_failed, failed_runs,
                   fetch_vars>>

\* shutil.rmtree(tmp_dir) and return the result
RenameEnd ==
    /\ pc = "rename"
    /\ files = << >>
    /\ tmp_dir' = {}
    /\ pc' = "done"
    /\ UNCHANGED <<cap_open, dir_made, ui, last_call, video_info, cap_pos, is_extracting, calls, req, chosen_backend,
                   start_frame, end_frame, total_frames_to_extract, extracted_count,
                   failed_count, progress_counter, current_frame_num, tasks, collected,
                   events, read_failed, files, output_dir, failed_runs,
                   fetch_vars>>


\* ------------------------------------------------------------- single-frame fetches
\* cap.read() under the lock: the frame at the cursor, or nothing
FetchRead(t) ==
    /\ fetch[t].pc = "read"
    /\ \E ret \in BOOLEAN :
         /\ ret => (cap_open /\ cap_pos < video_info.total_frames)
         /\ IF ret
            THEN \* the caller gets the frame at the cursor
                 cap_pos' = cap_pos + 1
            ELSE \* the caller gets None, or the AttributeError of a handle
                 \* closed under it
                 \E adv \in {0, 1} :
                      /\ adv = 1 => cap_open
                      /\ cap_pos + adv <= video_info.total_frames
                      /\ cap_pos' = cap_pos + adv
    /\ fetch' = [fetch EXCEPT ![t] = IdleFetch]
    /\ cap_lock' = "free"
    /\ UNCHANGED <<cap_open, dir_made, ui, last_call, video_info, is_extracting, calls, engine_vars, disk_vars>>

\* with self._cap_lock: self.cap.set(CAP_PROP_POS_FRAMES, frame_num)
SeekLocked(t, frame_num) ==
    /\ HandleOpen
    /\ fetch[t].pc = "idle"
    /\ cap_lock = "free"
    /\ cap_lock' = t
    /\ cap_pos' = frame_num
    /\ fetch' = [fetch EXCEPT ![t] = [pc |-> "read", target |-> frame_num, grabs |-> 0]]
    /\ UNCHANGED <<cap_open, dir_made, ui, last_call, video_info, is_extracting, calls, engine_vars, disk_vars>>

get_frame_at_time(t, timestamp) == SeekLocked(t, timestamp_to_frame(timestamp))

get_frame_at_position(t, frame_number) ==
    /\ frame_number >= 0
    /\ frame_number < video_info.total_frames
    /\ SeekLocked(t, frame_number)

\* get_frame_at_seconds_fast up to its first cursor operation: a short forward
\* move is done by grab() calls, anything else by a seek
get_frame_at_seconds_fast(t, milli) ==
    /\ HandleOpen
    /\ fetch[t].pc = "idle"
    /\ cap_lock = "free"
    /\ cap_lock' = t
    /\ LET fps == IF video_info.fps = 0 THEN 25 ELSE video_info.fps
           target_frame == (Max(0, milli) * fps) \div 1000
           current_frame == cap_pos
           diff == target_frame - current_frame
           threshold == Max(1, fps * 2)
       IN  IF diff > 0 /\ diff <= threshold
           THEN /\ fetch' = [fetch EXCEPT ![t] =
                       [pc |-> IF diff - 1 > 0 THEN "grab" ELSE "read",
                        target |-> target_frame, grabs |-> Max(0, diff - 1)]]
                /\ UNCHANGED cap_pos
           ELSE /\ fetch' = [fetch EXCEPT ![t] =
                       [pc |-> "read", target |-> target_frame, grabs |-> 0]]
                /\ cap_pos' = target_frame
    /\ UNCHANGED <<cap_open, dir_made, ui, last_call, video_info, is_extracting, calls, engine_vars, disk_vars>>

\* one self.cap.grab() of the forward path
FastGrab(t) ==
    /\ fetch[t].pc = "grab"
    /\ \E got \in BOOLEAN :
         /\ got => (cap_open /\ cap_pos < video_info.total_frames)
         /\ cap_pos' = IF got THEN cap_pos + 1 ELSE cap_pos
    /\ fetch' = [fetch EXCEPT ![t].grabs = @ - 1,
                              ![t].pc = IF fetch[t].grabs - 1 > 0 THEN "grab" ELSE "read"]
    /\ UNCHANGED <<cap_open, dir_made, ui, last_call, video_info, is_extracting, calls, engine_vars, disk_vars, cap_lock>>

\* a get_frame_at_* call on a handle that is closed: "if not self.cap or not
\* self.cap.isOpened(): return None", before the lock is taken
FetchClosed(t) ==
    /\ ~HandleOpen
    /\ fetch[t].pc = "idle"
    /\ last_call' = [NoCall EXCEPT !.fn = "get_frame"]
    /\ UNCHANGED <<cap_open, dir_made, ui, video_info, cap_pos, is_extracting, calls,
                   engine_vars, disk_vars, fetch_vars>>

Fetch ==
    \/ \E ts \in StartTexts : get_frame_at_time("ui", ts)
    \/ \E n \in 0..(MaxFrames - 1) : get_frame_at_position("ui", n)
    \/ \E ms \in PreviewMillis : get_frame_at_seconds_fast("preview", ms)
    \/ \E t \in Fetchers : FastGrab(t)
    \/ \E t \in Fetchers : FetchRead(t)

\* ------------------------------------------------------------- specifications
Backends == {"auto", "opencv", "ffmpeg"}

\* any request a caller can make
AnyRequest ==
    \E st \in StartTexts, et \in EndTexts, k \in 0..MaxInterval,
       thr \in BOOLEAN, be \in Backends, cb \in BOOLEAN :
      start_extraction(st, et, k, thr, be, cb)

Direct ==
    \/ ScanStep
    \/ ScanEnd
    \/ \E i \in 1..MaxFrames : SaveAndReport(i)
    \/ CollectStep
    \/ CollectEnd

ProcessFilter ==
    \/ FfmpegRun
    \/ RenameStep
    \/ RenameEnd

\* one extraction, any request, both backends
Next ==
    \/ (calls = 0 /\ AnyRequest)
    \/ extract_frames
    \/ Direct
    \/ ProcessFilter
    \/ extraction_finished

Spec == Init /\ [][Next]_vars

\* the same with the user pressing Stop at any moment
NextCancel ==
    \/ Next
    \/ stop_extraction

SpecCancel == Init /\ [][NextCancel]_vars

\* several extractions into the same output directory through the external
\* process
NextRuns ==
    \/ (calls < MaxCalls /\
        \E st \in StartTexts, et \in EndTexts, k \in 1..MaxInterval :
          start_extraction(st, et, k, TRUE, "ffmpeg", TRUE))
    \/ extract_frames
    \/ ProcessFilter
    \/ extraction_finished

SpecRuns == Init /\ [][NextRuns]_vars

\* one extraction by the direct backend, no progress callback
DirectRequest ==
    \E st \in StartTexts, et \in EndTexts, k \in 1..MaxInterval, thr \in BOOLEAN :
      start_extraction(st, et, k, thr, "opencv", FALSE)

NextDirect ==
    \/ (calls = 0 /\ DirectRequest)
    \/ extract_frames
    \/ Direct
    \/ extraction_finished

SpecDirect == Init /\ [][NextDirect]_vars

\* the same on any video the decoder may report
SpecAnyDirect == InitAny /\ [][NextDirect]_vars

\* an extraction as the GUI requests it (pooled encoding), by the direct
\* backend, while other threads fetch single frames from the same handle
HandleRequest ==
    \E st \in StartTexts, k \in 1..MaxInterval :
      start_extraction(st, NoneText, k, TRUE, "opencv", FALSE)

NextHandle ==
    \/ (calls = 0 /\ HandleRequest)
    \/ extract_frames
    \/ Direct
    \/ extraction_finished
    \/ Fetch

SpecHandle == Init /\ [][NextHandle]_vars

\* one extraction whose request may be one that validation has to reject: an
\* empty or reversed range, a frame_interval below 1
ValidateStarts == {Hms(0, 0, 0), Hms(0, 0, 1), Hms(0, 0, 2)}

ValidateRequest ==
    \E st \in ValidateStarts, et \in EndTexts, k \in (-1)..MaxInterval,
       thr \in BOOLEAN, be \in Backends :
      start_extraction(st, et, k, thr, be, FALSE)

NextValidate ==
    \/ (calls = 0 /\ ValidateRequest)
    \/ extract_frames
    \/ Direct
    \/ ProcessFilter
    \/ extraction_finished

SpecValidate == Init /\ [][NextValidate]_vars

\* several extractions on one handle, each asking for the external process or
\* for the direct backend: a caller that retries with the other backend. The
\* direct runs save inline (use_threading False), so no task is submitted and
\* the futures loop has nothing to collect
RetryRequest ==
    \E be \in {"ffmpeg", "opencv"} :
      start_extraction(Hms(0, 0, 0), NoneText, 1, FALSE, be, FALSE)

DirectInline ==
    \/ ScanStep
    \/ ScanEnd
    \/ CollectEnd

NextRetry ==
    \/ (calls < MaxCalls /\ RetryRequest)
    \/ extract_frames
    \/ DirectInline
    \/ ProcessFilter
    \/ extraction_finished

SpecRetry == Init /\ [][NextRetry]_vars

\* a single-threaded client that closes the handle at some moment and goes on
\* calling it: extractions (direct backend, saving inline), fetches, further
\* close() calls, each call made after the previous one has returned
CloseRequest == start_extraction(Hms(0, 0, 0), NoneText, 1, FALSE, "opencv", FALSE)

EngineIdle == ~is_extracting /\ pc \in {"idle", "done", "failed"}
FetchIdle == \A t \in Fetchers : fetch[t].pc = "idle"

NextClose ==
    \/ (calls < MaxCalls /\ FetchIdle /\ CloseRequest)
    \/ extract_frames
    \/ DirectInline
    \/ extraction_finished
    \/ (EngineIdle /\ Fetch)
    \/ (EngineIdle /\ \E t \in Fetchers : FetchClosed(t))
    \/ (EngineIdle /\ FetchIdle /\ close)

SpecClose == Init /\ [][NextClose]_vars

\* the window: one extraction started from the extract button (threads,
\* callback, default backend), the stop button, the preview worker thread
\* fetching while it is running, a change of the video path (load_video and
\* clear_video_info close the handle) and the closing of the window
GuiRequest == start_extraction(Hms(0, 0, 0), NoneText, 1, TRUE, "auto", TRUE)

\* _preview_worker_loop: one get_frame_at_seconds_fast call of the worker
PreviewFetch ==
    /\ ui.preview
    /\ \/ \E ms \in PreviewMillis : get_frame_at_seconds_fast("preview", ms)
       \/ FetchClosed("preview")

NextGui ==
    \/ (calls = 0 /\ HandleOpen /\ GuiRequest)
    \/ extract_frames
    \/ Direct
    \/ ScanClosed
    \/ AbortEnd
    \/ ProcessFilter
    \/ extraction_finished
    \/ stop_extraction
    \/ PreviewFetch
    \/ FastGrab("preview")
    \/ FetchRead("preview")
    \/ close
    \/ on_closing

SpecGui == Init /\ [][NextGui]_vars

\* the window with its video kept open: one extraction started from the
\* extract button, and the stop button
NextStop ==
    \/ (calls = 0 /\ GuiRequest)
    \/ extract_frames
    \/ Direct
    \/ ProcessFilter
    \/ extraction_finished
    \/ stop_extraction

SpecStop == Init /\ [][NextStop]_vars

\* ------------------------------------------------------------- conversions
\* texts handed to the conversion functions
ConvTexts ==
    { Hms(0, 0, 0), Hms(0, 0, 1), Hms(0, 0, 2), Hms(0, 1, 0),
      HmsMilli(0, 0, 500), HmsMilli(0, 0, 1500),
      Hms(1, 2, 3), HmsMilli(23, 59, 59999),                 \* "01:02:03", "23:59:59.999"
      Hms(24, 0, 0), Hms(1, 60, 0), Hms(0, 0, 60),           \* "24:00:00", "01:60:00", "00:00:60"
      <<BadPart, BadPart>>,                                  \* "bad:input"
      <<BadPart>>,                                           \* ""
      <<IntPart(0), IntPart(1)>>,                            \* "00:01"
      <<IntPart(0), BadPart, IntPart(1)>>,                   \* "00:xx:01"
      <<DecPart(500), IntPart(0), IntPart(1)>>,              \* "0.5:00:01"
      <<IntPart(0), IntPart(0), InfPart>>,                   \* "00:00:inf"
      <<IntPart(0), IntPart(0), IntPart(1), IntPart(500)>>,  \* "00:00:01:500", "00-00-01-500"
      <<IntPart(0), IntPart(0), IntPart(1), BadPart>> }      \* "00:00:01:"

TimestampToFrameCall(txt) ==
    /\ last_call' = [NoCall EXCEPT
            !.fn = "timestamp_to_frame", !.text = txt,
            !.raised = timestamp_to_frame_raises(txt),
            !.out_frame = IF timestamp_to_frame_raises(txt) THEN 0
                          ELSE timestamp_to_frame(txt)]
    /\ UNCHANGED <<cap_open, dir_made, ui, video_info, cap_pos, is_extracting, calls,
                   engine_vars, disk_vars, fetch_vars>>

FrameToTimestampCall(f) ==
    /\ last_call' = [NoCall EXCEPT
            !.fn = "frame_to_timestamp", !.frame = f,
            !.out_label = frame_to_timestamp(f)]
    /\ UNCHANGED <<cap_open, dir_made, ui, video_info, cap_pos, is_extracting, calls,
                   engine_vars, disk_vars, fetch_vars>>

ValidateTimeFormatCall(txt) ==
    /\ last_call' = [NoCall EXCEPT
            !.fn = "validate_time_format", !.text = txt,
            !.out_ok = validate_time_format(txt)]
    /\ UNCHANGED <<cap_open, dir_made, ui, video_info, cap_pos, is_extracting, calls,
                   engine_vars, disk_vars, fetch_vars>>

\* values of a time scale handed to seconds_to_hms_precise, as <<num, den>>
\* for num / den seconds
ScaleSeconds ==
    { <<0, 1>>, <<1, 1>>, <<3, 2>>, <<3661, 1>>, <<-1, 1>>,
      <<1, 2500>>,                   \* 0.0004
      <<1, 2000>>, <<3, 2000>>,      \* 0.0005, 0.0015: halves
      <<2469, 2000>>,                \* 1.2345
      <<2499, 2500>>,                \* 0.9996
      <<149999, 2500>>,              \* 59.9996
      <<8999999, 2500>>,             \* 3599.9996
      <<172799999, 2000>> }          \* 86399.9995

SecondsToHmsPreciseCall(num, den) ==
    /\ last_call' = [NoCall EXCEPT
            !.fn = "seconds_to_hms_precise", !.num = num, !.den = den,
            !.out_label = seconds_to_hms_precise(num, den)]
    /\ UNCHANGED <<cap_open, dir_made, ui, video_info, cap_pos, is_extracting, calls,
                   engine_vars, disk_vars, fetch_vars>>

NextConv ==
    \/ \E txt \in ConvTexts : TimestampToFrameCall(txt)
    \/ \E f \in 0..MaxFrames : FrameToTimestampCall(f)
    \/ \E txt \in ConvTexts : ValidateTimeFormatCall(txt)
    \/ \E q \in ScaleSeconds : SecondsToHmsPreciseCall(q[1], q[2])

SpecConv == InitAny /\ [][NextConv]_vars

\* single frames fetched from a handle no extraction is running on
NextFetch == Fetch

SpecFetch == InitAny /\ [][NextFetch]_vars

\* ------------------------------------------------------------- properties
DirectRun == chosen_backend = "opencv"
TaskIndices == {tasks[i].idx : i \in 1..Len(tasks)}

\* C1: a call that returns a result has
\* extracted_count + failed_count = total_frames_to_extract
C1_CountsAddUp ==
    pc = "done" => extracted_count + failed_count = total_frames_to_extract

\* C2: at every moment of a run extracted_count + failed_count is at most
\* total_frames_to_extract and no task is counted as extracted and as failed
C2_NoOvercount ==
    /\ extracted_count + failed_count <= total_frames_to_extract
    /\ \A i \in 1..Len(tasks) : tasks[i].counted # "both"

\* C3: in the direct backend every task whose outcome the control thread has
\* taken (inline: every task; pool: every collected future) has advanced
\* progress_counter by one and fired one callback (completed = counter,
\* total = planned count)
C3_ProgressPerTask ==
    (DirectRun /\ pc \in {"scan", "collect", "done"}) =>
        LET handled == IF req.use_threading THEN collected ELSE Len(tasks)
        IN  /\ progress_counter = handled
            /\ req.has_callback =>
                 /\ Len(events) = handled
                 /\ \A n \in 1..Len(events) :
                      /\ events[n].completed = n
                      /\ events[n].total = total_frames_to_extract

\* C4 as stated: when the decode loop has ended, the indices with an encode
\* task are exactly the i in [start_frame, end_frame] with (i - start_frame) mod k = 0
C4_TasksAreSelection ==
    (DirectRun /\ pc \in {"collect", "done"}) =>
        TaskIndices = {i \in start_frame..end_frame :
                         (i - start_frame) % req.frame_interval = 0}

\* C4 amended: the indices with an encode task are exactly the i already
\* scanned with (i - start_frame) mod k = 0 whose read succeeded, one task each
C4_TasksAreSelectionRead ==
    (DirectRun /\ pc \in {"scan", "collect", "done"}) =>
        /\ TaskIndices = {i \in start_frame..(current_frame_num - 1) :
                            /\ (i - start_frame) % req.frame_interval = 0
                            /\ i \notin read_failed}
        /\ Cardinality(TaskIndices) = Len(tasks)
        /\ pc # "scan" => current_frame_num = end_frame + 1

C4_Witness ==
    /\ DirectRun
    /\ pc = "done"
    /\ req.frame_interval = 2
    /\ start_frame = 1
    /\ Len(tasks) = 1
    /\ read_failed # {}

\* C5: once the range is validated, total_frames_to_extract is
\* floor((end_frame - start_frame) / k) + 1, whichever backend runs
C5_PlannedCount ==
    pc \in {"scan", "collect", "ffmpeg", "rename", "done"} =>
        total_frames_to_extract =
            ((end_frame - start_frame) \div req.frame_interval) + 1

C5_Witness ==
    /\ pc = "done"
    /\ chosen_backend = "ffmpeg"
    /\ req.frame_interval = 2
    /\ (end_frame - start_frame) % 2 = 1
    /\ total_frames_to_extract = 1

\* C6: in the direct backend the cursor is at current_frame_num before every
\* read of the loop, and every frame handed to an encode task for index i is
\* frame i of the video
C6_CursorFollowsLoop ==
    DirectRun =>
        /\ pc = "scan" => cap_pos = current_frame_num
        /\ \A i \in 1..Len(tasks) : tasks[i].frame = tasks[i].idx

\* C7: every file of the external process carries as ordinal the index of the
\* frame it holds, so each renamed file is named by the label of its frame
C7_OrdinalIsFrameIndex ==
    /\ \A f \in tmp_dir : f.ord = f.frame
    /\ \A g \in output_dir : g.name = frame_to_timestamp(g.frame)

\* C8: no file written by a run of the external process that exited non-zero
\* is in the output directory
C8_FailedRunNotPromoted ==
    \A g \in output_dir : g.run \notin failed_runs

\* C9: once the flag is cleared during a run, no further task is created
C9_NoTaskAfterCancel ==
    [][(~is_extracting /\ pc \in {"scan", "collect"}) => Len(tasks') = Len(tasks)]_vars

\* the operations that are between their first and their last cursor operation
CursorUsers ==
    (IF pc = "scan" THEN {"extract_frames"} ELSE {})
        \cup {t \in Fetchers : fetch[t].pc # "idle"}

\* C10: at most one operation that moves or reads the cursor is in flight: the
\* decode loop of extract_frames or one get_frame_at_* call
C10_OneCursorUser == Cardinality(CursorUsers) <= 1

\* the lock does serialise the get_frame_at_* calls among themselves
FetchesSerialised ==
    /\ Cardinality({t \in Fetchers : fetch[t].pc # "idle"}) <= 1
    /\ \A t \in Fetchers : fetch[t].pc # "idle" <=> cap_lock = t

\* C11: whichever path get_frame_at_seconds_fast takes, the read that gives its
\* result is made with the cursor at target_frame, so it returns frame target_frame
\* of the video
C11_FastReturnsTarget ==
    \A t \in Fetchers :
        (fetch[t].pc = "read" /\ fetch[t].target < video_info.total_frames)
            => cap_pos = fetch[t].target

\* C12: the label of frame f, its hyphens read as colons, converts back to f on
\* a video that has frame f
C12_RoundTrip ==
    (last_call.fn = "frame_to_timestamp" /\ video_info.fps > 0
        /\ last_call.frame < video_info.total_frames)
        => /\ ~timestamp_to_frame_raises(ColonForm(last_call.out_label))
           /\ timestamp_to_frame(ColonForm(last_call.out_label)) = last_call.frame

\* the text has three parts that int(), int() and float() accept
WellFormed(txt) ==
    /\ Len(txt) = 3
    /\ txt[1].int /\ txt[2].int /\ txt[3].num

\* C13: timestamp_to_frame raises nothing, its result is never negative and
\* never above total_frames - 1, and for a text h:m:s it is
\* floor((h*3600 + m*60 + s) * fps) clamped into [0, total_frames - 1]
C13_ClampedFrame ==
    last_call.fn = "timestamp_to_frame" =>
        /\ ~last_call.raised
        /\ last_call.out_frame >= 0
        /\ video_info.total_frames > 0 =>
              /\ last_call.out_frame <= video_info.total_frames - 1
              /\ (WellFormed(last_call.text) /\ ~last_call.text[3].inf) =>
                    LET txt == last_call.text
                        total_milli == ((txt[1].milli \div 1000) * 3600
                                        + (txt[2].milli \div 1000) * 60) * 1000
                                       + txt[3].milli
                        index == (total_milli * video_info.fps) \div 1000
                    IN  last_call.out_frame =
                            Max(0, Min(index, video_info.total_frames - 1))

\* C14: for a text that is not three numeric parts timestamp_to_frame gives 0
\* and raises nothing (on a video that has frames)
C14_MalformedGivesZero ==
    (last_call.fn = "timestamp_to_frame" /\ ~WellFormed(last_call.text)
        /\ video_info.total_frames > 0) =>
        /\ ~last_call.raised
        /\ last_call.out_frame = 0

\* C15: frame_to_timestamp(f) has the fields of seconds_to_hms_precise(f / fps),
\* its millisecond field within 0..999; for fps <= 0 it is 00-00-00-000
C15_LabelIsPreciseHms ==
    last_call.fn = "frame_to_timestamp" =>
        IF video_info.fps <= 0
        THEN last_call.out_label = <<0, 0, 0, 0>>
        ELSE /\ last_call.out_label =
                    seconds_to_hms_precise(last_call.frame, video_info.fps)
             /\ last_call.out_label[4] \in 0..999

\* what the specification requires of a valid time text
IsValidTime(txt) ==
    /\ Len(txt) = 3
    /\ txt[1].int /\ txt[1].milli >= 0 /\ txt[1].milli <= 23 * 1000
    /\ txt[2].int /\ txt[2].milli >= 0 /\ txt[2].milli <= 59 * 1000
    /\ txt[3].num /\ ~txt[3].inf /\ txt[3].milli >= 0 /\ txt[3].milli < 60 * 1000

\* C16: validate_time_format is True exactly for three parts h:m:s with integer
\* h in [0, 23], integer m in [0, 59] and numeric s in [0, 60); it accepts
\* "01:02:03" and "23:59:59.999", rejects "24:00:00", "01:60:00", "bad:input"
C16_ValidIffInRange ==
    last_call.fn = "validate_time_format" =>
        /\ ~last_call.raised
        /\ last_call.out_ok <=> IsValidTime(last_call.text)
        /\ last_call.text \in {Hms(1, 2, 3), HmsMilli(23, 59, 59999)} => last_call.out_ok
        /\ last_call.text \in {Hms(24, 0, 0), Hms(1, 60, 0), <<BadPart, BadPart>>}
              => ~last_call.out_ok

C16_Witness ==
    /\ last_call.fn = "validate_time_format"
    /\ last_call.text = HmsMilli(23, 59, 59999)
    /\ last_call.out_ok

\* what a call that is rejected leaves alone: the cursor, the files, the tasks
\* and the counters
RunState == <<cap_pos, output_dir, tmp_dir, tasks, extracted_count, failed_count,
              progress_counter, events>>

\* C17: a call whose times resolve to start_frame >= end_frame fails in
\* validation: no result, no frame decoded, no process run, no file written
C17_EmptyRangeRejected ==
    [][(pc = "called" /\ start_frame' >= end_frame')
          => (pc' = "failed" /\ UNCHANGED RunState)]_vars

C17_Witness ==
    /\ pc = "failed"
    /\ calls = 1
    /\ req.frame_interval >= 1
    /\ start_frame = end_frame
    /\ start_frame > 0

\* C18: a call with frame_interval below 1 fails in validation: no frame
\* decoded, no process run, no file written
C18_BadIntervalRejected ==
    [][(pc = "called" /\ req.frame_interval < 1)
          => (pc' = "failed" /\ UNCHANGED RunState)]_vars

\* C19: a call with backend 'auto' that has resolved to the external process
\* does not fail on a later availability test: it ends with a result or with
\* the failure of the process it ran
C19_AutoResolvedOnce ==
    [][(req.backend = "auto" /\ pc = "ffmpeg" /\ pc' = "failed")
          => calls \in failed_runs']_vars

\* the call asked for the external process and ended on "ffmpeg not found"
UnavailableFailure ==
    /\ req.backend = "ffmpeg"
    /\ pc = "failed"
    /\ chosen_backend = "ffmpeg"
    /\ calls \notin failed_runs

\* C20: the steps of a call that asked for the external process and found it
\* absent (the dispatch to the process-filter backend, the failed availability
\* test) run no process, write no file and leave cursor, lock, video and
\* directories as they were, so a retry starts as a first call does
C20_UnavailableLeavesHandle ==
    [][(req.backend = "ffmpeg" /\ pc \in {"called", "ffmpeg"}
          /\ pc' \in {"ffmpeg", "failed"} /\ failed_runs' = failed_runs)
          => UNCHANGED <<RunState, cap_lock, video_info>>]_vars

\* the second call found the process absent on a handle the first call has
\* read frames from and written files with
C20_Witness ==
    /\ UnavailableFailure
    /\ calls = 2
    /\ start_frame < end_frame
    /\ cap_pos > 0
    /\ output_dir # {}

\* the names of the files in the output directory
OutputNames == {g.name : g \in output_dir}

\* C21: a run in which nothing failed leaves exactly the file names its
\* backend derives from start_frame, end_frame and frame_interval, whatever the
\* order in which the pooled tasks wrote them
C21_NamesDeterministic ==
    (pc = "done" /\ failed_count = 0) =>
        OutputNames =
            IF DirectRun
            THEN {frame_to_timestamp(i) :
                    i \in {x \in start_frame..end_frame :
                             (x - start_frame) % req.frame_interval = 0}}
            ELSE {frame_to_timestamp(start_frame + j) :
                    j \in 0..((end_frame - start_frame) \div req.frame_interval)}

C21_Witness ==
    /\ pc = "done"
    /\ failed_count = 0
    /\ DirectRun
    /\ req.use_threading
    /\ req.frame_interval = 2
    /\ Len(tasks) = 2
    /\ Cardinality(output_dir) = 2

\* C22: with nothing failing, either backend leaves the files named after the
\* selected frame indices start_frame, start_frame + k, ... and reports as
\* extracted_count the number of those indices
C22_BackendsAgree ==
    (pc = "done" /\ failed_count = 0) =>
        LET selected == {x \in start_frame..end_frame :
                           (x - start_frame) % req.frame_interval = 0}
        IN  /\ OutputNames = {frame_to_timestamp(i) : i \in selected}
            /\ extracted_count = Cardinality(selected)

\* C23: within one call two tasks for distinct frame indices have distinct
\* file names
C23_DistinctPaths ==
    DirectRun =>
        \A i, j \in 1..Len(tasks) :
            tasks[i].idx # tasks[j].idx
                => frame_to_timestamp(tasks[i].idx) # frame_to_timestamp(tasks[j].idx)

\* C24: once the handle is closed it stays closed, no get_frame_at_* call
\* enters a seek or read, and an extract_frames call fails without making the
\* output directory and without decoding or writing anything
C24_ClosedIsAbsorbing ==
    [][~cap_open =>
          /\ ~cap_open'
          /\ \A t \in Fetchers : fetch[t].pc = "idle" => fetch'[t].pc = "idle"
          /\ (pc = "called" /\ pc' # "called")
                => (pc' = "failed" /\ dir_made' = dir_made /\ UNCHANGED RunState)]_vars

\* on a closed handle a fetch has returned None and the first extract_frames
\* call has failed with no output directory made
C24_Witness ==
    /\ ~cap_open
    /\ pc = "failed"
    /\ calls = 1
    /\ ~dir_made
    /\ last_call.fn = "get_frame"

\* C25: while the handle is closed no thread is inside a seek or read on it,
\* and the extraction thread has no read of it still to make
C25_NoReadOfClosedHandle ==
    ~cap_open =>
        /\ fetch["preview"].pc = "idle"
        /\ ~(pc = "scan" /\ current_frame_num <= end_frame)

\* C26: when a direct-backend extract_frames call has returned or raised, none
\* of the tasks it submitted to the pool is still pending
C26_NoTaskOutlivesCall ==
    (pc \in {"done", "failed"} /\ DirectRun) =>
        \A i \in 1..Len(tasks) : tasks[i].st # "pending"

\* a threaded direct run that has returned after submitting a task per frame
C26_Witness ==
    /\ pc = "done"
    /\ DirectRun
    /\ req.use_threading
    /\ Len(tasks) = MaxFrames
    /\ collected = MaxFrames

\* C27: in the direct backend a task whose encoding or writing failed is counted
\* once in failed_count and nothing else changes: the loop reaches the end of
\* the range, every selected frame that was read has its task, every task is
\* counted, and the call returns a result (it raises only out of the callback)
C27_EncodeFailureCounted ==
    (DirectRun /\ pc \in {"done", "failed"}) =>
        LET n == Len(tasks)
            failedTasks == {i \in 1..n : tasks[i].st = "fail"}
            savedTasks == {i \in 1..n : tasks[i].st = "ok"}
            callbackRaised == {i \in 1..n : tasks[i].counted \in {"both", "failed_twice"}}
        IN  /\ (n > 0 /\ ~req.has_callback) => pc = "done"
            /\ pc = "done" =>
                  /\ current_frame_num = end_frame + 1
                  /\ \A x \in start_frame..end_frame :
                        Selected(x, start_frame, req.frame_interval)
                            => x \in TaskIndices \cup read_failed
                  /\ failed_count = Cardinality(read_failed) + Cardinality(failedTasks)
                                        + Cardinality(callbackRaised)
                  /\ extracted_count = Cardinality(savedTasks)

\* a run that returned with its first task failed and a later one saved
C27_Witness ==
    /\ pc = "done"
    /\ DirectRun
    /\ Len(tasks) >= 2
    /\ tasks[1].st = "fail"
    /\ tasks[2].st = "ok"
    /\ failed_count = 1
    /\ extracted_count >= 1

\* C28: for seconds >= 0 the fields of seconds_to_hms_precise are in range
\* (minutes and seconds 0..59, milliseconds 0..999) and their value is within
\* half a millisecond of the argument, a rounded-up 1000 ms being carried
C28_RoundedAndCarried ==
    (last_call.fn = "seconds_to_hms_precise" /\ last_call.num >= 0) =>
        LET l == last_call.out_label
            whole == last_call.num \div last_call.den
            rest == last_call.num % last_call.den
            \* milliseconds of the label above the whole seconds of the argument
            above == ((l[1] * 60 + l[2]) * 60 + l[3] - whole) * 1000 + l[4]
            err == above * last_call.den - rest * 1000
        IN  /\ Len(l) = 4
            /\ l[1] >= 0
            /\ l[2] \in 0..59
            /\ l[3] \in 0..59
            /\ l[4] \in 0..999
            /\ 2 * (IF err < 0 THEN -err ELSE err) <= last_call.den

\* 3599.9996 seconds: the carry has gone through seconds and minutes
C28_Witness ==
    /\ last_call.fn = "seconds_to_hms_precise"
    /\ last_call.num = 8999999
    /\ last_call.den = 2500
    /\ last_call.out_label = <<1, 0, 0, 0>>

\* C29: within one call the completed values handed to progress_callback are
\* 1, 2, 3, ... in that order, and none exceeds the total of its event
C29_ProgressCounts ==
    \A n \in 1..Len(events) :
        /\ events[n].completed = n
        /\ events[n].completed <= events[n].total

\* C30: once the extraction thread has ended and no callback of it is waiting
\* in the main loop, the window is idle again (flag cleared, extract button
\* enabled, stop button disabled, preview worker running); and while the
\* thread runs the extract button is disabled, so no second thread is started
C30_IdleAfterStop ==
    LET callbackPosted == ~ui.callback_done /\ (pc = "failed" \/ is_extracting)
    IN  /\ (pc \in {"done", "failed"} /\ ~callbackPosted) =>
               (~is_extracting /\ ui.buttons = "idle" /\ ui.preview)
        /\ pc \notin {"idle", "done", "failed"} => ui.buttons = "running"

====
